---- MODULE Spec2Model ----
(***************************************************************************)
(* Model of src/arithmetic/bigint/modulus.rs (ring): construction and      *)
(* validation of OwnedModulusWithOne, derivation of N0 and oneRR, the      *)
(* borrowed Modulus view and the read-only operations on both.             *)
(*                                                                         *)
(* Word widths are scaled down: the 64-bit word that carries n mod r is    *)
(* U64_BITS bits wide, a limb is a whole or a half of it depending on the  *)
(* build (N0::LIMBS_USED = 1 or 2), and a byte is ByteBits bits wide.      *)
(* Limb arrays are sequences, least significant limb first; byte strings   *)
(* are sequences, most significant byte first.                             *)
(***************************************************************************)
EXTENDS Integers, Sequences, FiniteSets, TLC

VARIABLES LIMBS_USED, call, result, partial, view, last

vars == <<LIMBS_USED, call, result, partial, view, last>>

(***************************************************************************)
(* Bounds of the model.                                                    *)
(***************************************************************************)
\* bits in one byte of the scaled machine
ByteBits == 2
\* bytes in half of the scaled double-width word (the 32-bit limb)
HalfWordBytes == 1
\* how many limbs above the minimum the largest accepted modulus has
MaxExtraLimbs == 1

(***************************************************************************)
(* Program constants and platform parameters.                              *)
(***************************************************************************)
MODULUS_MIN_LIMBS == 4

MODULUS_MAX_LIMBS == MODULUS_MIN_LIMBS + MaxExtraLimbs

Pow2(k) == 2 ^ k

\* width of the word passed to bn_neg_inv_mod_r_u64 (u64 in the source)
U64_BITS == 2 * HalfWordBytes * ByteBits

\* N0::LIMBS_USED limbs make up one such word
LIMB_BITS == U64_BITS \div LIMBS_USED

LIMB_BYTES == LIMB_BITS \div ByteBits

LimbRadix == Pow2(LIMB_BITS)

ByteRadix == Pow2(ByteBits)

\* r of the n0 comment: 2^(N0::LIMBS_USED * LIMB_BITS)
LittleR == Pow2(LIMBS_USED * LIMB_BITS)

Limb == 0 .. (LimbRadix - 1)

Byte == 0 .. (ByteRadix - 1)

CpuFeatures == {"baseline", "extended"}

(***************************************************************************)
(* Limb-array helpers.                                                     *)
(***************************************************************************)
\* BoxedLimbs::zero(len)
BoxedLimbs_zero(len) == [i \in 1 .. len |-> 0]

\* value of a limb array modulo m, by Horner's rule from the top limb down
RECURSIVE LimbsMod(_, _)
LimbsMod(a, m) ==
    IF Len(a) = 0 THEN 0
    ELSE (a[1] + (LimbRadix % m) * LimbsMod(Tail(a), m)) % m

\* the limb array without its high zero limbs: one array per integer
RECURSIVE StripHighZeroLimbs(_)
StripHighZeroLimbs(a) ==
    IF Len(a) = 0 THEN a
    ELSE IF a[Len(a)] = 0 THEN StripHighZeroLimbs(SubSeq(a, 1, Len(a) - 1))
    ELSE a

\* number of bits of a single limb value
RECURSIVE BitLen(_)
BitLen(x) == IF x = 0 THEN 0 ELSE 1 + BitLen(x \div 2)

\* limb::limbs_are_even_constant_time: the parity test on the lowest limb
limbs_are_even_constant_time(a) ==
    IF Len(a) = 0 THEN TRUE ELSE a[1] % 2 = 0

\* limb::limbs_less_than_limb_constant_time: value < b for a single limb b
limbs_less_than_limb_constant_time(a, b) ==
    /\ \A i \in 2 .. Len(a) : a[i] = 0
    /\ (Len(a) = 0 \/ a[1] < b)

\* limb::limbs_minimal_bits: bits needed for the value, no leading zero bits
limbs_minimal_bits(a) ==
    LET s == StripHighZeroLimbs(a)
    IN  IF Len(s) = 0 THEN 0
        ELSE (Len(s) - 1) * LIMB_BITS + BitLen(s[Len(s)])

(***************************************************************************)
(* Big-endian byte decode and encode.                                      *)
(***************************************************************************)
RECURSIVE StripLeadingZeroBytes(_)
StripLeadingZeroBytes(bs) ==
    IF Len(bs) = 0 THEN bs
    ELSE IF bs[1] = 0 THEN StripLeadingZeroBytes(Tail(bs))
    ELSE bs

\* the value of at most LIMB_BYTES big-endian bytes, as one limb
RECURSIVE BeBytesToLimb(_)
BeBytesToLimb(bs) ==
    IF Len(bs) = 0 THEN 0
    ELSE bs[Len(bs)] + ByteRadix * BeBytesToLimb(SubSeq(bs, 1, Len(bs) - 1))

\* limbs of a big-endian byte string, lowest limb first; the top limb is
\* zero-padded when the length is no multiple of LIMB_BYTES
RECURSIVE parse_big_endian_and_pad(_)
parse_big_endian_and_pad(bs) ==
    IF Len(bs) = 0 THEN << >>
    ELSE IF Len(bs) <= LIMB_BYTES THEN << BeBytesToLimb(bs) >>
    ELSE << BeBytesToLimb(SubSeq(bs, Len(bs) - LIMB_BYTES + 1, Len(bs))) >>
         \o parse_big_endian_and_pad(SubSeq(bs, 1, Len(bs) - LIMB_BYTES))

\* BoxedLimbs::positive_minimal_width_from_be_bytes: leading zero bytes are
\* stripped and a minimal-width limb array is built
positive_minimal_width_from_be_bytes(input) ==
    [tag |-> "Ok", limbs |-> parse_big_endian_and_pad(StripLeadingZeroBytes(input))]

\* BoxedLimbs::new_unchecked(n.into_limbs()): the limbs are taken as they are
new_unchecked(limbs) == limbs

\* BoxedLimbs::minimal_width_from_unpadded: the element's limbs are reused
minimal_width_from_unpadded(limbs) == limbs

\* the LIMB_BYTES big-endian bytes of one limb
RECURSIVE LimbBeBytes(_, _)
LimbBeBytes(x, k) ==
    IF k = 0 THEN << >>
    ELSE LimbBeBytes(x \div ByteRadix, k - 1) \o << x % ByteRadix >>

\* limb::unstripped_be_bytes: every limb's bytes, highest limb first
RECURSIVE unstripped_be_bytes(_)
unstripped_be_bytes(limbs) ==
    IF Len(limbs) = 0 THEN << >>
    ELSE LimbBeBytes(limbs[Len(limbs)], LIMB_BYTES)
         \o unstripped_be_bytes(SubSeq(limbs, 1, Len(limbs) - 1))

\* polyfill::LeadingZerosStripped::new
LeadingZerosStripped(bs) == StripLeadingZeroBytes(bs)

(***************************************************************************)
(* N0 derivation.                                                          *)
(***************************************************************************)
\* inverse of odd n modulo 2^U64_BITS; every step doubles the correct bits
RECURSIVE InvByDoubling(_, _, _)
InvByDoubling(n, y, bits) ==
    IF bits >= U64_BITS THEN y
    ELSE LET r == Pow2(U64_BITS)
             t == (2 + r - ((n * y) % r)) % r
         IN  InvByDoubling(n, (y * t) % r, 2 * bits)

\* bn_neg_inv_mod_r_u64: the negative inverse of n modulo the word radix
bn_neg_inv_mod_r_u64(n) ==
    LET r == Pow2(U64_BITS)
    IN  (r - InvByDoubling(n % r, n % r, 3)) % r

\* N0::from(u64): the word kept as two limbs, the second unused when
\* N0::LIMBS_USED = 1
N0_from(u) ==
    IF LIMBS_USED = 2 THEN << u % LimbRadix, u \div LimbRadix >>
    ELSE << u, 0 >>

\* the word an N0 stands for
N0_value(n0) == n0[1] + (IF LIMBS_USED = 2 THEN n0[2] * LimbRadix ELSE 0)

(***************************************************************************)
(* Arithmetic on limb arrays of equal length, for One::newRR.              *)
(***************************************************************************)
\* a + b from limb i on with carry c: the sum's limbs and the carry out
RECURSIVE AddFrom(_, _, _, _)
AddFrom(a, b, i, c) ==
    IF i > Len(a) THEN << c >>
    ELSE LET s == a[i] + b[i] + c
         IN  << s % LimbRadix >> \o AddFrom(a, b, i + 1, s \div LimbRadix)

\* a - b from limb i on with borrow c: the difference's limbs and the borrow out
RECURSIVE SubFrom(_, _, _, _)
SubFrom(a, b, i, c) ==
    IF i > Len(a) THEN << c >>
    ELSE LET d == a[i] - b[i] - c
         IN  IF d < 0 THEN << d + LimbRadix >> \o SubFrom(a, b, i + 1, 1)
             ELSE << d >> \o SubFrom(a, b, i + 1, 0)

\* 2 * a mod n for a < n
DoubleMod(a, n) ==
    LET k == Len(n)
        s == AddFrom(a, a, 1, 0)
        d == SubFrom(s, n \o << 0 >>, 1, 0)
    IN  IF d[k + 2] = 0 THEN SubSeq(d, 1, k) ELSE SubSeq(s, 1, k)

\* a doubled times times modulo n, the first half of the doublings first
RECURSIVE DoubleModTimes(_, _, _)
DoubleModTimes(a, n, times) ==
    IF times = 0 THEN a
    ELSE IF times = 1 THEN DoubleMod(a, n)
    ELSE LET half == DoubleModTimes(a, n, times \div 2)
         IN  IF Len(half) = Len(n)  \* always: the halves are evaluated in turn
             THEN DoubleModTimes(half, n, times - (times \div 2))
             ELSE half

\* One::newRR: R*R mod n by repeated doubling of 1, where R is the limb
\* radix raised to the modulus's limb count
One_newRR(m) ==
    LET k == Len(m.limbs)
        one == [i \in 1 .. k |-> IF i = 1 THEN 1 ELSE 0]
    IN  DoubleModTimes(one, m.limbs, 2 * k * LIMB_BITS)

(***************************************************************************)
(* Construction and validation.                                            *)
(***************************************************************************)
\* error::KeyRejected values
too_large == [tag |-> "TooLarge"]

unexpected_error == [tag |-> "UnexpectedError"]

invalid_component == [tag |-> "InvalidComponent"]

NoView == [some |-> FALSE]

\* struct Modulus<'a, M>; the tag M has no runtime representation
Modulus(limbs, n0, len_bits, cpu_features) ==
    [some |-> TRUE, limbs |-> limbs, n0 |-> n0, len_bits |-> len_bits,
     cpu_features |-> cpu_features]

\* struct OwnedModulusWithOne<M>
OwnedModulusWithOne(limbs, n0, oneRR, len_bits, cpu_features) ==
    [limbs |-> limbs, n0 |-> n0, oneRR |-> oneRR, len_bits |-> len_bits,
     cpu_features |-> cpu_features]

\* mutant: the second limb is left out of n mod r
n_mod_r_low_limb_only(n) == n[1]

\* n mod r: the lowest N0::LIMBS_USED limbs of n packed into one word
n_mod_r(n) ==
    IF LIMBS_USED = 2 THEN n[1] + n[2] * Pow2(U64_BITS \div 2)
    ELSE n[1]

\* mutant: the transient view does not carry the caller's cpu_features
partial_modulus_default_features(n, cpu_features) ==
    Modulus(n, N0_from(bn_neg_inv_mod_r_u64(n_mod_r(n))),
            limbs_minimal_bits(n), "baseline")

\* the transient view from_boxed_limbs hands to One::newRR
partial_modulus(n, cpu_features) ==
    Modulus(n, N0_from(bn_neg_inv_mod_r_u64(n_mod_r(n))),
            limbs_minimal_bits(n), cpu_features)

\* what from_boxed_limbs builds once every check has passed
validated(n, cpu_features) ==
    LET n0 == N0_from(bn_neg_inv_mod_r_u64(n_mod_r(n)))
        bits == limbs_minimal_bits(n)
        part == partial_modulus(n, cpu_features)
        RR == One_newRR(part)
    IN  [res |-> [tag |-> "Ok",
                  m |-> OwnedModulusWithOne(n, n0, RR, bits, cpu_features)],
         n |-> n, partial |-> part]

rejected(n, error) == [res |-> error, n |-> n, partial |-> NoView]

\* mutant: the parity check runs before the limb-count checks
from_boxed_limbs_parity_first(n, cpu_features) ==
    IF limbs_are_even_constant_time(n) THEN rejected(n, invalid_component)
    ELSE IF Len(n) > MODULUS_MAX_LIMBS THEN rejected(n, too_large)
    ELSE IF Len(n) < MODULUS_MIN_LIMBS THEN rejected(n, unexpected_error)
    ELSE IF limbs_less_than_limb_constant_time(n, 3)
    THEN rejected(n, unexpected_error)
    ELSE validated(n, cpu_features)

\* mutant: the magnitude check is missing
from_boxed_limbs_no_magnitude(n, cpu_features) ==
    IF Len(n) > MODULUS_MAX_LIMBS THEN rejected(n, too_large)
    ELSE IF Len(n) < MODULUS_MIN_LIMBS THEN rejected(n, unexpected_error)
    ELSE IF limbs_are_even_constant_time(n) THEN rejected(n, invalid_component)
    ELSE validated(n, cpu_features)

\* mutant: the parity check is missing
from_boxed_limbs_no_parity(n, cpu_features) ==
    IF Len(n) > MODULUS_MAX_LIMBS THEN rejected(n, too_large)
    ELSE IF Len(n) < MODULUS_MIN_LIMBS THEN rejected(n, unexpected_error)
    ELSE IF limbs_less_than_limb_constant_time(n, 3)
    THEN rejected(n, unexpected_error)
    ELSE validated(n, cpu_features)

\* mutant: the upper limb-count bound is exclusive
from_boxed_limbs_max_exclusive(n, cpu_features) ==
    IF Len(n) >= MODULUS_MAX_LIMBS THEN rejected(n, too_large)
    ELSE IF Len(n) < MODULUS_MIN_LIMBS THEN rejected(n, unexpected_error)
    ELSE IF limbs_are_even_constant_time(n) THEN rejected(n, invalid_component)
    ELSE IF limbs_less_than_limb_constant_time(n, 3)
    THEN rejected(n, unexpected_error)
    ELSE validated(n, cpu_features)

\* mutant: the parity check runs before the lower limb-count check
from_boxed_limbs_parity_before_min(n, cpu_features) ==
    IF Len(n) > MODULUS_MAX_LIMBS THEN rejected(n, too_large)
    ELSE IF limbs_are_even_constant_time(n) THEN rejected(n, invalid_component)
    ELSE IF Len(n) < MODULUS_MIN_LIMBS THEN rejected(n, unexpected_error)
    ELSE IF limbs_less_than_limb_constant_time(n, 3)
    THEN rejected(n, unexpected_error)
    ELSE validated(n, cpu_features)

\* OwnedModulusWithOne::from_boxed_limbs; the returned record carries the
\* Result (res) and, for observation only, the limbs passed in and the
\* transient view
from_boxed_limbs(n, cpu_features) ==
    IF Len(n) > MODULUS_MAX_LIMBS THEN rejected(n, too_large)
    ELSE IF Len(n) < MODULUS_MIN_LIMBS THEN rejected(n, unexpected_error)
    ELSE IF limbs_are_even_constant_time(n) THEN rejected(n, invalid_component)
    ELSE IF limbs_less_than_limb_constant_time(n, 3)
    THEN rejected(n, unexpected_error)
    ELSE validated(n, cpu_features)

\* OwnedModulusWithOne::from_be_bytes
from_be_bytes(input, cpu_features) ==
    LET limbs == positive_minimal_width_from_be_bytes(input)
    IN  IF limbs.tag # "Ok"
        THEN [res |-> [tag |-> limbs.tag], n |-> << >>, partial |-> NoView]
        ELSE from_boxed_limbs(limbs.limbs, cpu_features)

\* OwnedModulusWithOne::from_nonnegative
from_nonnegative(n, cpu_features) ==
    from_boxed_limbs(new_unchecked(n), cpu_features)

\* OwnedModulusWithOne::from_elem
from_elem(elem, cpu_features) ==
    from_boxed_limbs(minimal_width_from_unpadded(elem), cpu_features)

(***************************************************************************)
(* Read-only operations of the owned modulus and of the view.              *)
(***************************************************************************)
\* OwnedModulusWithOne::oneRR
oneRR(self) == self.oneRR

\* mutant: the element is sized by the smaller modulus
to_elem_self_len(self, l) == self.limbs

\* OwnedModulusWithOne::to_elem
to_elem(self, l) ==
    [i \in 1 .. Len(l.limbs) |->
        IF i <= Len(self.limbs) THEN self.limbs[i] ELSE BoxedLimbs_zero(Len(l.limbs))[i]]

\* mutant: the view loses the owner's cpu_features
modulus_default_features(self) ==
    Modulus(self.limbs, self.n0, self.len_bits, "baseline")

\* OwnedModulusWithOne::modulus
modulus(self) ==
    Modulus(self.limbs, self.n0, self.len_bits, self.cpu_features)

\* OwnedModulusWithOne::len_bits
len_bits(self) == self.len_bits

\* mutant: the leading zero bytes are kept
be_bytes_unstripped(self) == unstripped_be_bytes(self.limbs)

\* OwnedModulusWithOne::be_bytes
be_bytes(self) == LeadingZerosStripped(unstripped_be_bytes(self.limbs))

\* Clone for OwnedModulusWithOne
clone(self) ==
    OwnedModulusWithOne(self.limbs, self.n0, self.oneRR, self.len_bits,
                        self.cpu_features)

\* Modulus::zero
Modulus_zero(self) == BoxedLimbs_zero(Len(self.limbs))

\* Modulus::one
Modulus_one(self) == [Modulus_zero(self) EXCEPT ![1] = 1]

\* Modulus::limbs
Modulus_limbs(self) == self.limbs

\* Modulus::n0
Modulus_n0(self) == self.n0

\* Modulus::len_bits
Modulus_len_bits(self) == self.len_bits

\* Modulus::cpu_features
Modulus_cpu_features(self) == self.cpu_features

(***************************************************************************)
(* Inputs.                                                                 *)
(***************************************************************************)
\* the smallest and the largest values below a radix
EdgeVals(radix) == {v \in 0 .. (radix - 1) : v <= 3 \/ v >= radix - 2}

FillVals(radix) == {0, 1, radix - 1}

\* top ++ fill^(len - 2) ++ low, or <<low>>, or the empty sequence
Shaped(len, top, fill, low) ==
    [i \in 1 .. len |-> IF i = len THEN low ELSE IF i = 1 THEN top ELSE fill]

MaxInputBytes == (MODULUS_MAX_LIMBS + 1) * LIMB_BYTES + 1

\* byte strings, most significant byte first
ByteInputs ==
    {Shaped(len, top, fill, low) :
        len \in 0 .. MaxInputBytes, top \in EdgeVals(ByteRadix),
        fill \in FillVals(ByteRadix), low \in EdgeVals(ByteRadix)}

RECURSIVE Reverse(_)
Reverse(a) == IF Len(a) = 0 THEN a ELSE Reverse(Tail(a)) \o << a[1] >>

\* limb arrays, least significant limb first
LimbInputs ==
    {Reverse(Shaped(len, top, fill, low)) :
        len \in 0 .. (MODULUS_MAX_LIMBS + 1), top \in EdgeVals(LimbRadix),
        fill \in FillVals(LimbRadix), low \in EdgeVals(LimbRadix)}

\* limbs of an element: no padding above the value
UnpaddedInputs == {a \in LimbInputs : Len(a) = 0 \/ a[Len(a)] # 0}

\* a view of a larger modulus with len limbs, as to_elem takes it
LargerModulus(len, cpu_features) ==
    LET limbs == [i \in 1 .. len |-> LimbRadix - 1]
    IN  partial_modulus(limbs, cpu_features)

(***************************************************************************)
(* The state machine.                                                      *)
(***************************************************************************)
NoCall == [ctor |-> "none"]

NoResult == [tag |-> "None"]

NoOp == [op |-> "none", arg |-> 0, val |-> 0]

Init ==
    /\ LIMBS_USED \in {1, 2}
    /\ call = NoCall
    /\ result = NoResult
    /\ partial = NoView
    /\ view = NoView
    /\ last = NoOp

Construct(ctor, input, cpu_features, ret) ==
    /\ call' = [ctor |-> ctor, input |-> input, n |-> ret.n,
                cpu_features |-> cpu_features]
    /\ result' = ret.res
    /\ partial' = ret.partial
    /\ last' = NoOp
    /\ UNCHANGED <<LIMBS_USED, view>>

FromBeBytes ==
    /\ call.ctor = "none"
    /\ \E input \in ByteInputs, cpu_features \in CpuFeatures :
        Construct("from_be_bytes", input, cpu_features,
                  from_be_bytes(input, cpu_features))

FromNonnegative ==
    /\ call.ctor = "none"
    /\ \E n \in LimbInputs, cpu_features \in CpuFeatures :
        Construct("from_nonnegative", n, cpu_features,
                  from_nonnegative(n, cpu_features))

FromElem ==
    /\ call.ctor = "none"
    /\ \E elem \in UnpaddedInputs, cpu_features \in CpuFeatures :
        Construct("from_elem", elem, cpu_features,
                  from_elem(elem, cpu_features))

\* a holder of a shared reference calls a method of the owned modulus
OwnerOp(op, arg, val) ==
    /\ result.tag = "Ok"
    /\ last' = [op |-> op, arg |-> arg, val |-> val]
    /\ UNCHANGED <<LIMBS_USED, call, result, partial, view>>

CallOneRR == OwnerOp("oneRR", 0, oneRR(result.m))

CallLenBits == OwnerOp("len_bits", 0, len_bits(result.m))

CallBeBytes == OwnerOp("be_bytes", 0, be_bytes(result.m))

CallClone == OwnerOp("clone", 0, clone(result.m))

CallToElem ==
    /\ result.tag = "Ok"
    /\ \E len \in MODULUS_MIN_LIMBS .. MODULUS_MAX_LIMBS :
        LET l == LargerModulus(len, result.m.cpu_features)
        IN  /\ len >= Len(result.m.limbs)
            /\ l.limbs # result.m.limbs
            /\ OwnerOp("to_elem", len, to_elem(result.m, l))

CallModulus ==
    /\ result.tag = "Ok"
    /\ view' = modulus(result.m)
    /\ last' = [op |-> "modulus", arg |-> 0, val |-> 0]
    /\ UNCHANGED <<LIMBS_USED, call, result, partial>>

\* a holder of the view calls a method of it
ViewOp(op, val) ==
    /\ view.some
    /\ last' = [op |-> op, arg |-> 0, val |-> val]
    /\ UNCHANGED <<LIMBS_USED, call, result, partial, view>>

ViewZero == ViewOp("Modulus::zero", Modulus_zero(view))

ViewOne == ViewOp("Modulus::one", Modulus_one(view))

ViewLimbs == ViewOp("Modulus::limbs", Modulus_limbs(view))

ViewN0 == ViewOp("Modulus::n0", Modulus_n0(view))

ViewLenBits == ViewOp("Modulus::len_bits", Modulus_len_bits(view))

ViewCpuFeatures ==
    ViewOp("Modulus::cpu_features", Modulus_cpu_features(view))

\* the borrow ends
ReleaseView ==
    /\ view.some
    /\ view' = NoView
    /\ last' = NoOp
    /\ UNCHANGED <<LIMBS_USED, call, result, partial>>

\* the Result goes out of scope; no view outlives its owner
Drop ==
    /\ call.ctor # "none"
    /\ ~view.some
    /\ call' = NoCall
    /\ result' = NoResult
    /\ partial' = NoView
    /\ last' = NoOp
    /\ UNCHANGED <<LIMBS_USED, view>>

Next ==
    \/ FromBeBytes
    \/ FromNonnegative
    \/ FromElem
    \/ CallOneRR
    \/ CallLenBits
    \/ CallBeBytes
    \/ CallClone
    \/ CallToElem
    \/ CallModulus
    \/ ViewZero
    \/ ViewOne
    \/ ViewLimbs
    \/ ViewN0
    \/ ViewLenBits
    \/ ViewCpuFeatures
    \/ ReleaseView
    \/ Drop

Spec == Init /\ [][Next]_vars

(***************************************************************************)
(* What the limbs and bytes stand for, independently of the code's tests.  *)
(***************************************************************************)
ValueIsEven(limbs) == LimbsMod(limbs, 2) = 0

ValueLessThan3(limbs) ==
    LET s == StripHighZeroLimbs(limbs)
    IN  Len(s) = 0 \/ (Len(s) = 1 /\ s[1] < 3)

BytesValueIsEven(bs) == Len(bs) = 0 \/ bs[Len(bs)] % 2 = 0

BytesValueLessThan3(bs) ==
    LET s == StripLeadingZeroBytes(bs)
    IN  Len(s) = 0 \/ (Len(s) = 1 /\ s[1] < 3)

\* limbs a byte-encoded value requires
LimbsRequired(bs) ==
    (Len(StripLeadingZeroBytes(bs)) + LIMB_BYTES - 1) \div LIMB_BYTES

\* a / 2 modulo odd n, for a < n
HalveMod(a, n) ==
    LET k == Len(n)
        x == IF a[1] % 2 = 0 THEN a \o << 0 >> ELSE AddFrom(a, n, 1, 0)
    IN  [i \in 1 .. k |-> (x[i] \div 2) + (x[i + 1] % 2) * (LimbRadix \div 2)]

RECURSIVE HalveModTimes(_, _, _)
HalveModTimes(a, n, times) ==
    IF times = 0 THEN a
    ELSE IF times = 1 THEN HalveMod(a, n)
    ELSE LET half == HalveModTimes(a, n, times \div 2)
         IN  IF Len(half) = Len(n)
             THEN HalveModTimes(half, n, times - (times \div 2))
             ELSE half

\* a < n for limb arrays of equal length
LimbsLess(a, n) == SubFrom(a, n, 1, 0)[Len(n) + 1] = 1

\* x = R*R mod n for odd n: x < n, and dividing x by R twice leaves 1
IsRR(x, n) ==
    /\ Len(x) = Len(n)
    /\ LimbsLess(x, n)
    /\ HalveModTimes(x, n, 2 * Len(n) * LIMB_BITS)
        = [i \in 1 .. Len(n) |-> IF i = 1 THEN 1 ELSE 0]

Constructed == call.ctor # "none"

Owned == result.tag = "Ok"

(***************************************************************************)
(* C1: the four checks run in the order limb count above the maximum,      *)
(* limb count below the minimum, even value, value below 3, and the error  *)
(* returned is that of the first check that fails.                         *)
(***************************************************************************)
ValidationOrder ==
    Constructed =>
        LET n == call.n
            first == IF Len(n) > MODULUS_MAX_LIMBS THEN "TooLarge"
                     ELSE IF Len(n) < MODULUS_MIN_LIMBS THEN "UnexpectedError"
                     ELSE IF ValueIsEven(n) THEN "InvalidComponent"
                     ELSE IF ValueLessThan3(n) THEN "UnexpectedError"
                     ELSE "Ok"
        IN  /\ call.ctor \in {"from_nonnegative", "from_elem"} => n = call.input
            /\ call.ctor = "from_be_bytes" => Len(n) = LimbsRequired(call.input)
            /\ result.tag = first
            /\ (Len(n) < MODULUS_MIN_LIMBS /\ ~ValueIsEven(n))
                   => result = unexpected_error

\* an even value with too few limbs reports the limb count, not the parity
ValidationOrderWitness ==
    /\ Constructed
    /\ Len(call.n) \in 1 .. (MODULUS_MIN_LIMBS - 1)
    /\ ValueIsEven(call.n)
    /\ result = unexpected_error

(***************************************************************************)
(* C2: every modulus returned as Ok has between MODULUS_MIN_LIMBS and      *)
(* MODULUS_MAX_LIMBS limbs and stands for an odd value of at least 3; a    *)
(* failed construction returns an error and nothing else.                  *)
(***************************************************************************)
ConstructedModulusValid ==
    /\ Owned =>
        /\ Len(result.m.limbs) \in MODULUS_MIN_LIMBS .. MODULUS_MAX_LIMBS
        /\ ~ValueIsEven(result.m.limbs)
        /\ ~ValueLessThan3(result.m.limbs)
    /\ (Constructed /\ ~Owned) =>
        /\ result \in {too_large, unexpected_error, invalid_component}
        /\ DOMAIN result = {"tag"}
        /\ ~partial.some
        /\ ~view.some

\* a padded limb array of the largest accepted size was accepted
ConstructedModulusValidWitness ==
    /\ Owned
    /\ call.ctor = "from_nonnegative"
    /\ Len(result.m.limbs) = MODULUS_MAX_LIMBS
    /\ result.m.limbs[MODULUS_MAX_LIMBS] = 0

(***************************************************************************)
(* C3: the stored N0 satisfies N0 * n = -1 modulo r, r being 2 to the      *)
(* N0::LIMBS_USED * LIMB_BITS; for n = 3 modulo r it is (r - 1) / 3.       *)
(***************************************************************************)
N0Correct ==
    /\ Owned =>
        LET n0 == N0_value(result.m.n0)
            n == LimbsMod(result.m.limbs, LittleR)
        IN  /\ result.m.n0[1] \in Limb
            /\ result.m.n0[2] \in Limb
            /\ (n0 * n) % LittleR = LittleR - 1
            /\ n = 3 => n0 = (LittleR - 1) \div 3
    \* every odd word of the radix, as the low limbs of some n
    /\ ~Constructed =>
        \A lo \in Limb, hi \in (IF LIMBS_USED = 2 THEN Limb ELSE {0}) :
            lo % 2 = 1 =>
                LET n0 == N0_from(bn_neg_inv_mod_r_u64(n_mod_r(<< lo, hi >>)))
                IN  (N0_value(n0) * (lo + hi * LimbRadix)) % LittleR
                        = LittleR - 1

\* two limbs make up n mod r and the second one is not zero
N0CorrectWitness ==
    /\ Owned
    /\ LIMBS_USED = 2
    /\ result.m.limbs[1] = 3
    /\ result.m.limbs[2] = LimbRadix - 1

EvenRejectedWithinLimbBounds ==
    (call.ctor = "from_be_bytes" /\ BytesValueIsEven(call.input)) =>
        LET k == LimbsRequired(call.input)
        IN  /\ k \in MODULUS_MIN_LIMBS .. MODULUS_MAX_LIMBS
                => result = invalid_component
            /\ k < MODULUS_MIN_LIMBS => result = unexpected_error
            /\ k > MODULUS_MAX_LIMBS => result = too_large

\* an even value of the smallest accepted size was rejected for its parity
EvenRejectedWitness ==
    /\ call.ctor = "from_be_bytes"
    /\ BytesValueIsEven(call.input)
    /\ Len(call.input) = MODULUS_MIN_LIMBS * LIMB_BYTES
    /\ LimbsRequired(call.input) = MODULUS_MIN_LIMBS
    /\ result = invalid_component

\* C5 as stated: from_be_bytes of any even value fails with InvalidComponent
EvenAlwaysInvalidComponent ==
    (call.ctor = "from_be_bytes" /\ BytesValueIsEven(call.input)) =>
        result = invalid_component

(***************************************************************************)
(* C6 (as amended): from_be_bytes of a byte string requiring more than     *)
(* MODULUS_MAX_LIMBS limbs fails with TooLarge, and from_be_bytes of an    *)
(* odd value requiring exactly MODULUS_MAX_LIMBS limbs succeeds.           *)
(***************************************************************************)
OversizedRejectedOddMaxAccepted ==
    call.ctor = "from_be_bytes" =>
        /\ LimbsRequired(call.input) > MODULUS_MAX_LIMBS => result = too_large
        /\ (/\ LimbsRequired(call.input) = MODULUS_MAX_LIMBS
            /\ ~BytesValueIsEven(call.input)) => Owned

\* an odd value filling every byte of MODULUS_MAX_LIMBS limbs was accepted
OddMaxAcceptedWitness ==
    /\ call.ctor = "from_be_bytes"
    /\ Len(StripLeadingZeroBytes(call.input)) = MODULUS_MAX_LIMBS * LIMB_BYTES
    /\ Owned
    /\ Len(result.m.limbs) = MODULUS_MAX_LIMBS

\* C6 as stated: every byte string of exactly the maximum size succeeds
OversizedRejectedMaxAccepted ==
    call.ctor = "from_be_bytes" =>
        /\ LimbsRequired(call.input) > MODULUS_MAX_LIMBS => result = too_large
        /\ LimbsRequired(call.input) = MODULUS_MAX_LIMBS => Owned

(***************************************************************************)
(* C7: from_be_bytes of the encodings of 0, 1 and 2 fails with             *)
(* UnexpectedError, whatever the parity of the value.                      *)
(***************************************************************************)
SmallValuesUnexpectedError ==
    (call.ctor = "from_be_bytes" /\ BytesValueLessThan3(call.input)) =>
        result = unexpected_error

\* the even value 2 was rejected with UnexpectedError
SmallValuesWitness ==
    /\ call.ctor = "from_be_bytes"
    /\ StripLeadingZeroBytes(call.input) = << 2 >>
    /\ result = unexpected_error

(***************************************************************************)
(* C8: for a modulus built by from_be_bytes, be_bytes yields a sequence    *)
(* without a leading zero byte, from_be_bytes of that sequence succeeds    *)
(* with the same limbs, N0, oneRR and bit length, and yielding the bytes   *)
(* again gives the same sequence.                                          *)
(***************************************************************************)
BeBytesRoundTrip ==
    (Owned /\ call.ctor = "from_be_bytes" /\ last.op = "be_bytes") =>
        LET bytes == last.val
            again == from_be_bytes(bytes, call.cpu_features).res
        IN  /\ Len(bytes) > 0
            /\ bytes[1] # 0
            /\ again.tag = "Ok"
            /\ again.m.limbs = result.m.limbs
            /\ again.m.n0 = result.m.n0
            /\ again.m.oneRR = result.m.oneRR
            /\ again.m.len_bits = result.m.len_bits
            /\ StripHighZeroLimbs(again.m.limbs) = StripHighZeroLimbs(result.m.limbs)
            /\ be_bytes(result.m) = bytes

\* bytes were produced for a modulus whose top limb has a zero high byte
BeBytesRoundTripWitness ==
    /\ Owned
    /\ call.ctor = "from_be_bytes"
    /\ last.op = "be_bytes"
    /\ Len(last.val) < Len(result.m.limbs) * LIMB_BYTES

(***************************************************************************)
(* C9: the read-only operations of the owned modulus and of its views      *)
(* leave the owned modulus unchanged; every view has the owner's limbs,    *)
(* N0, bit length and cpu_features, and every clone equals the original.   *)
(***************************************************************************)
ReadsLeaveModulusUnchanged ==
    [][(Owned /\ call'.ctor # "none") =>
          /\ result' = result
          /\ partial' = partial
          /\ view'.some =>
              /\ view'.limbs = result.m.limbs
              /\ view'.n0 = result.m.n0
              /\ view'.len_bits = result.m.len_bits
              /\ view'.cpu_features = result.m.cpu_features
          /\ last'.op = "clone" => last'.val = result.m
          /\ last'.op = "oneRR" => last'.val = result.m.oneRR
          /\ last'.op = "len_bits" => last'.val = result.m.len_bits
          /\ last'.op = "Modulus::limbs" => last'.val = result.m.limbs
          /\ last'.op = "Modulus::n0" => last'.val = result.m.n0
          /\ last'.op = "Modulus::len_bits" => last'.val = result.m.len_bits
          /\ last'.op = "Modulus::cpu_features"
              => last'.val = result.m.cpu_features]_vars

\* a clone was taken while a view of a modulus with the non-default
\* features was held
ReadsWitness ==
    /\ Owned
    /\ result.m.cpu_features = "extended"
    /\ view.some
    /\ last.op = "clone"

(***************************************************************************)
(* C10: to_elem returns an element with the larger modulus's limb count    *)
(* whose low limbs are the smaller modulus's limbs and whose other limbs   *)
(* are zero; zero() and one() return elements of the view's limb count     *)
(* standing for 0 and 1.                                                   *)
(***************************************************************************)
ToElemZeroPadded ==
    /\ (Owned /\ last.op = "to_elem") =>
        LET k == Len(result.m.limbs)
        IN  /\ last.arg >= k
            /\ Len(last.val) = last.arg
            /\ SubSeq(last.val, 1, k) = result.m.limbs
            /\ \A i \in (k + 1) .. Len(last.val) : last.val[i] = 0
            /\ StripHighZeroLimbs(last.val) = StripHighZeroLimbs(result.m.limbs)
    /\ last.op = "Modulus::zero" =>
        /\ Len(last.val) = Len(view.limbs)
        /\ \A i \in 1 .. Len(last.val) : last.val[i] = 0
    /\ last.op = "Modulus::one" =>
        /\ Len(last.val) = Len(view.limbs)
        /\ last.val[1] = 1
        /\ \A i \in 2 .. Len(last.val) : last.val[i] = 0

\* an element of a ring with more limbs than the modulus was made
ToElemWitness ==
    /\ Owned
    /\ last.op = "to_elem"
    /\ last.arg > Len(result.m.limbs)

====
